---- MODULE Spec2Model ----
(***************************************************************************)
(* Model of src/streamlit_app.py: one run of the Streamlit script, from    *)
(* the upload check to the charts.  A DataFrame is a set of column names   *)
(* and a sequence of rows; a row keeps its index label (idx) and its cells *)
(* (a function from column name to value).  A missing cell (NaN) is the    *)
(* value NA for numeric columns and NameNA for the name column.            *)
(***************************************************************************)
EXTENDS Integers, Sequences, FiniteSets, TLC

VARIABLES
    pc,             \* position of the script
    uploaded_file,  \* what st.file_uploader returned
    df,             \* the DataFrame df (line 93, then lines 114-116)
    criteria,       \* the four sidebar values (lines 123-148)
    filtered,       \* rows of filtered (lines 153-158)
    top10,          \* rows of top10 (line 187)
    shown,          \* rows handed to st.dataframe (line 166)
    export,         \* the file stock_screening_results.xlsx (line 172)
    chart1,         \* series of the barh chart (line 195)
    chart2,         \* series of the stacked bar chart (lines 212-217)
    errors,         \* columns named by st.error (line 111)
    raised,         \* exception that left the script uncaught
    notice,         \* what the page shows in place of the script for that exception
    log             \* the steps the run has executed, in order

vars == <<pc, uploaded_file, df, criteria, filtered, top10, shown, export,
          chart1, chart2, errors, raised, notice, log>>

----------------------------------------------------------------------------
(* Column names (lines 100-106) *)

name_col == "Lstknm"
eps_col == "EPS"
roe_col == "ROE"
pe_col == "PE"
pb_col == "PB"
other_col == "Other"

required_cols == <<name_col, eps_col, roe_col, pe_col, pb_col>>

RequiredSet == {required_cols[i] : i \in 1..Len(required_cols)}

AllCols == RequiredSet \cup {other_col}

(* Missing values *)
NA == -99
NameNA == "<NA>"

isna(col, v) == IF col = name_col THEN v = NameNA ELSE v = NA

(* Comparisons of a cell with a number: a comparison with NaN is False *)
gt(a, b) == a /= NA /\ b /= NA /\ a > b
lt(a, b) == a /= NA /\ b /= NA /\ a < b

----------------------------------------------------------------------------
(* Bounds of the inputs *)

MaxRows == 2
MaxOver == 1

(* head(10), line 187 *)
TopN == 10

----------------------------------------------------------------------------
(* DataFrame operations used by the script *)

RECURSIVE BoolIndex(_, _)
(* df[mask]: the rows whose mask entry is True, in order, index labels kept *)
BoolIndex(rows, mask) ==
    IF rows = <<>> THEN <<>>
    ELSE LET n == Len(rows)
             front == BoolIndex(SubSeq(rows, 1, n - 1), mask)
         IN IF mask[n] THEN Append(front, rows[n]) ELSE front

(* df[required_cols]: keep the listed columns only (line 114) *)
Project(d, cols) ==
    LET keep == {cols[i] : i \in 1..Len(cols)}
    IN [cols |-> keep,
        rows |-> [i \in 1..Len(d.rows) |->
                    [idx |-> d.rows[i].idx,
                     cells |-> [c \in keep |-> d.rows[i].cells[c]]]]]

(* .dropna(): drop the rows with a missing value in any column (line 114) *)
dropna(d) ==
    [cols |-> d.cols,
     rows |-> BoolIndex(d.rows,
                [i \in 1..Len(d.rows) |->
                    \A c \in d.cols : ~isna(c, d.rows[i].cells[c])])]

(* Line 116 without the pb test *)
PositiveRatios_pe_only(d) ==
    [cols |-> d.cols,
     rows |-> BoolIndex(d.rows,
                [i \in 1..Len(d.rows) |-> gt(d.rows[i].cells[pe_col], 0)])]

(* df[(df[pe_col] > 0) & (df[pb_col] > 0)] (line 116) *)
PositiveRatios(d) ==
    [cols |-> d.cols,
     rows |-> BoolIndex(d.rows,
                [i \in 1..Len(d.rows) |->
                    gt(d.rows[i].cells[pe_col], 0) /\ gt(d.rows[i].cells[pb_col], 0)])]

(* Lines 114-116 with the mask of line 116 taken from the table as it was   *)
(* before dropna and applied by position                                     *)
Clean_positional_mask(d) ==
    LET p == Project(d, required_cols)
        n == dropna(p)
    IN [cols |-> n.cols,
        rows |-> BoolIndex(n.rows,
                   [i \in 1..Len(n.rows) |->
                       gt(p.rows[i].cells[pe_col], 0) /\ gt(p.rows[i].cells[pb_col], 0)])]

(* Lines 114-116 *)
Clean(d) == PositiveRatios(dropna(Project(d, required_cols)))

(* Lines 154-157 with >= on roe *)
Passes_roe_inclusive(r, c) ==
    /\ gt(r.cells[eps_col], c.min_eps)
    /\ (gt(r.cells[roe_col], c.min_roe) \/ r.cells[roe_col] = c.min_roe)
    /\ lt(r.cells[pe_col], c.max_pe)
    /\ lt(r.cells[pb_col], c.max_pb)

(* The four predicates of lines 154-157, for one row *)
Passes(r, c) ==
    /\ gt(r.cells[eps_col], c.min_eps)
    /\ gt(r.cells[roe_col], c.min_roe)
    /\ lt(r.cells[pe_col], c.max_pe)
    /\ lt(r.cells[pb_col], c.max_pb)

(* df[...] of lines 153-158, before the sort *)
Select(d, c) ==
    BoolIndex(d.rows, [i \in 1..Len(d.rows) |-> Passes(d.rows[i], c)])

RECURSIVE Orderings(_)
(* Every arrangement of the rows of a group of equal sort keys *)
Orderings(rows) ==
    IF rows = <<>> THEN {<<>>}
    ELSE UNION {
        {<<rows[i]>> \o t :
            t \in Orderings(BoolIndex(rows, [j \in 1..Len(rows) |-> j /= i]))}
        : i \in 1..Len(rows)}

RECURSIVE sort_values(_)
(* .sort_values(by=roe_col, ascending=False) (line 158).  No kind is given,   *)
(* so pandas sorts the one key column with numpy's quicksort, which does not   *)
(* fix the order of rows with equal keys (the scalar code reorders them once   *)
(* it partitions, above 16 rows; the vectorised argsort at any length).  The   *)
(* outcomes are the arrangements with roe non-increasing: the rows of the      *)
(* largest key first, in some order, then the rest.                            *)
sort_values(rows) ==
    IF rows = <<>> THEN {<<>>}
    ELSE LET keys == {rows[i].cells[roe_col] : i \in 1..Len(rows)}
             top == CHOOSE m \in keys : \A k \in keys : m >= k
             isTop == [i \in 1..Len(rows) |-> rows[i].cells[roe_col] = top]
             group == BoolIndex(rows, isTop)
             rest == BoolIndex(rows, [i \in 1..Len(rows) |-> ~isTop[i]])
         IN {g \o t : g \in Orderings(group), t \in sort_values(rest)}

(* .tail(n) in place of .head(n) *)
head_from_end(rows, n) ==
    SubSeq(rows, (IF Len(rows) < n THEN 1 ELSE Len(rows) - n + 1), Len(rows))

(* .head(n) (line 187) *)
head(rows, n) == SubSeq(rows, 1, IF Len(rows) < n THEN Len(rows) ELSE n)

(* .to_excel(output_file): the index label written as a column *)
to_excel_with_index(rows) ==
    [i \in 1..Len(rows) |-> rows[i].cells @@ ("index" :> rows[i].idx)]

(* .to_excel(output_file, index=False): one row per Record, cells only (line 172) *)
to_excel(rows) == [i \in 1..Len(rows) |-> rows[i].cells]

(* ax.barh(top10[name_col], top10[roe_col]) (line 195) *)
RoeSeries(rows) ==
    [i \in 1..Len(rows) |-> <<rows[i].cells[name_col], rows[i].cells[roe_col]>>]

(* names, top10[pe_col], top10[pb_col] of the stacked bars (lines 212-217) *)
PePbSeries(rows) ==
    [i \in 1..Len(rows) |->
        <<rows[i].cells[name_col], rows[i].cells[pe_col], rows[i].cells[pb_col]>>]

(* len(top10) <= 1 in place of line 189 *)
NoStocks_at_most_one(rows) == Len(rows) <= 1

(* len(top10) == 0 (line 189) *)
NoStocks(rows) == Len(rows) = 0

(* The required columns that are not in df.columns, in required_cols order *)
MissingCols(cols) ==
    BoolIndex(required_cols, [i \in 1..Len(required_cols) |-> required_cols[i] \notin cols])

(* The loop of lines 109-112 over required_cols[:-1] *)
Reported_skips_last(cols) ==
    LET m == BoolIndex(required_cols,
                [i \in 1..Len(required_cols) |->
                    i < Len(required_cols) /\ required_cols[i] \notin cols])
    IN IF m = <<>> THEN <<>> ELSE <<m[1]>>

(* The loop of lines 109-112 keeping the last missing column *)
Reported_last_missing(cols) ==
    IF MissingCols(cols) = <<>> THEN <<>>
    ELSE <<MissingCols(cols)[Len(MissingCols(cols))]>>

(* The loop of lines 109-112: st.error for the first missing column, then     *)
(* st.stop(); the columns the loop has reported when it ends                  *)
Reported(cols) ==
    IF MissingCols(cols) = <<>> THEN <<>> ELSE <<MissingCols(cols)[1]>>

(* pd.read_excel(uploaded_file) (line 93): the table of the file, or the     *)
(* exception pandas raises for a payload it cannot read                       *)
read_excel(f) ==
    IF f.parseable THEN [ok |-> TRUE, table |-> f.table]
    ELSE [ok |-> FALSE, table |-> [cols |-> {}, rows |-> <<>>]]

(* Line 93 sits in no try/except and no st.error follows it: the script      *)
(* itself shows nothing for a failed read.  The exception goes to the         *)
(* Streamlit runner, which replaces the rest of the page by the exception     *)
(* with its message and traceback, or, where error details are switched off   *)
(* (client.showErrorDetails, the hosted default), by a notice that the app    *)
(* has encountered an error, with the original message withheld.              *)
UncaughtNotices == {"exception_details", "redacted"}

----------------------------------------------------------------------------
(* Inputs: the uploaded files and the sidebar values *)

EmptyTable == [cols |-> {}, rows |-> <<>>]

StockName(i) == IF i % 2 = 1 THEN "A" ELSE "B"

(* <<name is missing, eps, roe, pe, pb>> *)
RowKinds ==
    { <<FALSE, 2, 2, 1, 1>>, <<FALSE, 2, 1, 1, 1>>, <<FALSE, 1, 2, 1, 1>>,
      <<FALSE, 2, 2, 2, 1>>, <<FALSE, 2, 2, 1, 2>>, <<FALSE, 2, 2, 0, 1>>,
      <<FALSE, 2, 2, 1, -1>>, <<FALSE, NA, 2, 1, 1>>, <<TRUE, 2, 2, 1, 1>> }

KindCells(i, k) ==
    [c \in RequiredSet |->
        CASE c = name_col -> IF k[1] THEN NameNA ELSE StockName(i)
          [] c = eps_col -> k[2]
          [] c = roe_col -> k[3]
          [] c = pe_col -> k[4]
          [] c = pb_col -> k[5]]

(* read_excel labels the rows 0, 1, 2, ... *)
ShortTables ==
    { [cols |-> RequiredSet,
       rows |-> [i \in 1..Len(ks) |-> [idx |-> i - 1, cells |-> KindCells(i, ks[i])]]]
      : ks \in UNION {[1..n -> RowKinds] : n \in 0..MaxRows} }

(* Tables longer than the chart: an extra column with gaps, the second row  *)
(* with a non-positive pb, the third without a name, the other rows valid   *)
LongCells(i, v) ==
    [c \in AllCols |->
        CASE c = name_col -> IF i = 3 THEN NameNA ELSE StockName(i)
          [] c = eps_col -> 2
          [] c = roe_col -> 1 + ((i + v) % 7)
          [] c = pe_col -> 1 + (i % 2)
          [] c = pb_col -> IF i = 2 THEN 0 ELSE 1 + ((i \div 2) % 2)
          [] c = other_col -> IF i % 3 = 0 THEN NA ELSE 5]

LongTables ==
    { [cols |-> AllCols,
       rows |-> [i \in 1..n |-> [idx |-> i - 1, cells |-> LongCells(i, v)]]]
      : n \in (TopN - 1)..(TopN + 2 + MaxOver), v \in {0, 1} }

(* Tables that lack a required column *)
SchemaTables ==
    { [cols |-> cs,
       rows |-> [i \in 1..n |-> [idx |-> i - 1, cells |-> [c \in cs |-> LongCells(i, 0)[c]]]]]
      : cs \in {x \in SUBSET AllCols : ~(RequiredSet \subseteq x)}, n \in 0..2 }

UploadInputs ==
    { [present |-> FALSE, parseable |-> FALSE, table |-> EmptyTable],
      [present |-> TRUE, parseable |-> FALSE, table |-> EmptyTable] }
    \cup { [present |-> TRUE, parseable |-> TRUE, table |-> t]
            : t \in ShortTables \cup LongTables \cup SchemaTables }

(* value= of the four widgets (lines 123-148) *)
DefaultCriteria == [min_eps |-> 0, min_roe |-> 10, max_pe |-> 30, max_pb |-> 2]

CriteriaInputs ==
    {DefaultCriteria} \cup
    [min_eps : {0, 1}, min_roe : {0, 1}, max_pe : {2, 3}, max_pb : {2, 3}]

----------------------------------------------------------------------------
(* The run *)

Init ==
    /\ pc = "upload"
    /\ uploaded_file \in UploadInputs
    /\ df = EmptyTable
    /\ criteria = DefaultCriteria
    /\ filtered = <<>>
    /\ top10 = <<>>
    /\ shown = <<>>
    /\ export = [written |-> FALSE, rows |-> <<>>]
    /\ chart1 = <<>>
    /\ chart2 = <<>>
    /\ errors = <<>>
    /\ raised = "none"
    /\ notice = "none"
    /\ log = <<>>

(* Lines 89-91 *)
CheckUpload ==
    /\ pc = "upload"
    /\ IF ~uploaded_file.present
       THEN /\ log' = log \o <<"warning", "stop">>
            /\ pc' = "stopped"
       ELSE /\ log' = log
            /\ pc' = "read"
    /\ UNCHANGED <<uploaded_file, df, criteria, filtered, top10, shown, export,
                   chart1, chart2, errors, raised, notice>>

(* Lines 93-95 *)
ReadExcel ==
    /\ pc = "read"
    /\ LET r == read_excel(uploaded_file)
       IN IF r.ok
          THEN /\ df' = r.table
               /\ log' = log \o <<"read_excel", "success">>
               /\ pc' = "validate"
               /\ raised' = raised
               /\ notice' = notice
          ELSE /\ raised' = "read_excel"
               /\ notice' \in UncaughtNotices
               /\ pc' = "raised"
               /\ UNCHANGED <<df, log>>
    /\ UNCHANGED <<uploaded_file, criteria, filtered, top10, shown, export,
                   chart1, chart2, errors>>

(* Lines 109-112 *)
ValidateColumns ==
    /\ pc = "validate"
    /\ LET rep == Reported(df.cols)
       IN IF rep /= <<>>
          THEN /\ errors' = rep
               /\ log' = log \o <<"error", "stop">>
               /\ pc' = "stopped"
          ELSE /\ errors' = errors
               /\ log' = log \o <<"validated">>
               /\ pc' = "clean"
    /\ UNCHANGED <<uploaded_file, df, criteria, filtered, top10, shown, export,
                   chart1, chart2, raised, notice>>

(* Lines 114-116; df[required_cols] raises KeyError for an absent column *)
CleanData ==
    /\ pc = "clean"
    /\ IF RequiredSet \subseteq df.cols
       THEN /\ df' = Clean(df)
            /\ log' = log \o <<"clean">>
            /\ pc' = "sidebar"
            /\ raised' = raised
            /\ notice' = notice
       ELSE /\ raised' = "KeyError"
            /\ notice' \in UncaughtNotices
            /\ pc' = "raised"
            /\ UNCHANGED <<df, log>>
    /\ UNCHANGED <<uploaded_file, criteria, filtered, top10, shown, export,
                   chart1, chart2, errors>>

(* Lines 121-148: the widgets return the values the user has set *)
Sidebar ==
    /\ pc = "sidebar"
    /\ criteria' \in CriteriaInputs
    /\ log' = log \o <<"sidebar">>
    /\ pc' = "filter"
    /\ UNCHANGED <<uploaded_file, df, filtered, top10, shown, export,
                   chart1, chart2, errors, raised, notice>>

(* Lines 153-158 *)
Filter ==
    /\ pc = "filter"
    /\ filtered' \in sort_values(Select(df, criteria))
    /\ log' = log \o <<"filter">>
    /\ pc' = "show"
    /\ UNCHANGED <<uploaded_file, df, criteria, top10, shown, export,
                   chart1, chart2, errors, raised, notice>>

(* Lines 163-166 *)
ShowTable ==
    /\ pc = "show"
    /\ shown' = filtered
    /\ log' = log \o <<"dataframe">>
    /\ pc' = "export"
    /\ UNCHANGED <<uploaded_file, df, criteria, filtered, top10, export,
                   chart1, chart2, errors, raised, notice>>

(* Lines 171-180 *)
Export ==
    /\ pc = "export"
    /\ export' = [written |-> TRUE, rows |-> to_excel(filtered)]
    /\ log' = log \o <<"to_excel", "download_button">>
    /\ pc' = "visualize"
    /\ UNCHANGED <<uploaded_file, df, criteria, filtered, top10, shown,
                   chart1, chart2, errors, raised, notice>>

(* Lines 185-190 *)
Visualize ==
    /\ pc = "visualize"
    /\ top10' = head(filtered, TopN)
    /\ IF NoStocks(top10')
       THEN /\ log' = log \o <<"info">>
            /\ pc' = "done"
       ELSE /\ log' = log
            /\ pc' = "chart1"
    /\ UNCHANGED <<uploaded_file, df, criteria, filtered, shown, export,
                   chart1, chart2, errors, raised, notice>>

(* Lines 193-209 *)
Chart1 ==
    /\ pc = "chart1"
    /\ chart1' = RoeSeries(top10)
    /\ log' = log \o <<"chart1">>
    /\ pc' = "chart2"
    /\ UNCHANGED <<uploaded_file, df, criteria, filtered, top10, shown, export,
                   chart2, errors, raised, notice>>

(* Lines 212-233 *)
Chart2 ==
    /\ pc = "chart2"
    /\ chart2' = PePbSeries(top10)
    /\ log' = log \o <<"chart2">>
    /\ pc' = "done"
    /\ UNCHANGED <<uploaded_file, df, criteria, filtered, top10, shown, export,
                   chart1, errors, raised, notice>>

Next ==
    \/ CheckUpload
    \/ ReadExcel
    \/ ValidateColumns
    \/ CleanData
    \/ Sidebar
    \/ Filter
    \/ ShowTable
    \/ Export
    \/ Visualize
    \/ Chart1
    \/ Chart2

Spec == Init /\ [][Next]_vars

----------------------------------------------------------------------------
(* Vocabulary of the properties *)

Occurs(e) == \E i \in 1..Len(log) : log[i] = e

Before(a, b) == \E i, j \in 1..Len(log) : i < j /\ log[i] = a /\ log[j] = b

Upload == uploaded_file.table

Cleaned == pc \in {"sidebar", "filter", "show", "export", "visualize", "chart1", "chart2", "done"}

Screened == pc \in {"show", "export", "visualize", "chart1", "chart2", "done"}

Exported == pc \in {"visualize", "chart1", "chart2", "done"}

Visualized == pc \in {"chart1", "chart2", "done"}

LacksColumn ==
    uploaded_file.present /\ uploaded_file.parseable /\ ~(RequiredSet \subseteq Upload.cols)

(* A Record strictly inside the four thresholds *)
StrictlyInside(cells, c) ==
    /\ cells[eps_col] > c.min_eps
    /\ cells[roe_col] > c.min_roe
    /\ cells[pe_col] < c.max_pe
    /\ cells[pb_col] < c.max_pb

OnThreshold(cells, c) ==
    \/ cells[eps_col] = c.min_eps
    \/ cells[roe_col] = c.min_roe
    \/ cells[pe_col] = c.max_pe
    \/ cells[pb_col] = c.max_pb

(* A Record with every required field present and positive price ratios *)
ValidCells(cells) ==
    /\ \A c \in RequiredSet : c \in DOMAIN cells
    /\ cells[name_col] /= NameNA
    /\ \A c \in RequiredSet \ {name_col} : cells[c] /= NA
    /\ cells[pe_col] > 0
    /\ cells[pb_col] > 0

----------------------------------------------------------------------------
(* C1: once the filter has run, the filtered result holds exactly the rows    *)
(* of the cleaned table with eps > min_eps, roe > min_roe, pe < max_pe and    *)
(* pb < max_pb: each such row once, no row on a threshold, no other row.      *)
C1_ExactStrictFilter ==
    Screened =>
        /\ \A i \in 1..Len(df.rows) :
              StrictlyInside(df.rows[i].cells, criteria)
                  <=> \E j \in 1..Len(filtered) : filtered[j] = df.rows[i]
        /\ \A j \in 1..Len(filtered) :
              /\ \E i \in 1..Len(df.rows) : df.rows[i] = filtered[j]
              /\ ~OnThreshold(filtered[j].cells, criteria)
        /\ \A j, k \in 1..Len(filtered) : filtered[j] = filtered[k] => j = k

(* A boundary row was left out while another row was kept *)
C1_Witness ==
    /\ Screened
    /\ filtered /= <<>>
    /\ \E i \in 1..Len(df.rows) :
          /\ df.rows[i].cells[roe_col] = criteria.min_roe
          /\ df.rows[i].cells[eps_col] > criteria.min_eps
          /\ df.rows[i].cells[pe_col] < criteria.max_pe
          /\ df.rows[i].cells[pb_col] < criteria.max_pb

(* C2: the filtered result is ordered by roe non-increasing, and rows with    *)
(* equal roe keep the relative order they have in the uploaded table (their   *)
(* index labels ascend).                                                      *)
C2_SortedAndStable ==
    Screened =>
        \A i, j \in 1..Len(filtered) :
            i < j =>
                /\ filtered[i].cells[roe_col] >= filtered[j].cells[roe_col]
                /\ (filtered[i].cells[roe_col] = filtered[j].cells[roe_col]
                       => filtered[i].idx < filtered[j].idx)

(* C3: every row of the filtered result, of the displayed table, of the       *)
(* export and of the chart data has pe > 0, pb > 0 and no missing required    *)
(* value; the cleaning runs after the column validation and before the        *)
(* Criteria are applied.                                                      *)
C3_OnlyCleanRowsDownstream ==
    /\ \A i \in 1..Len(filtered) : ValidCells(filtered[i].cells)
    /\ \A i \in 1..Len(shown) : ValidCells(shown[i].cells)
    /\ \A i \in 1..Len(top10) : ValidCells(top10[i].cells)
    /\ \A i \in 1..Len(export.rows) : ValidCells(export.rows[i])
    /\ \A i \in 1..Len(chart1) : chart1[i][1] /= NameNA /\ chart1[i][2] /= NA
    /\ \A i \in 1..Len(chart2) :
          chart2[i][1] /= NameNA /\ chart2[i][2] > 0 /\ chart2[i][3] > 0
    /\ Occurs("clean") => Before("validated", "clean")
    /\ Occurs("filter") => Before("clean", "filter")
    /\ ~Before("filter", "clean") /\ ~Before("clean", "validated")

(* Rows with a gap and rows with a non-positive ratio were uploaded, and the  *)
(* run charted what was left                                                  *)
C3_Witness ==
    /\ pc = "done"
    /\ Occurs("chart2")
    /\ \E i \in 1..Len(Upload.rows) : Upload.rows[i].cells[pb_col] <= 0
                                        /\ Upload.rows[i].cells[pb_col] /= NA
    /\ \E i \in 1..Len(Upload.rows) : Upload.rows[i].cells[name_col] = NameNA

(* C4: a run on a table that lacks a required column halts at validation:    *)
(* the error is the last thing the run does, and no cleaning, filtering,      *)
(* table, export, download button or chart is produced.                       *)
C4_SchemaErrorHalts ==
    (LacksColumn /\ pc \notin {"upload", "read", "validate"}) =>
        /\ pc = "stopped"
        /\ errors /= <<>>
        /\ log = <<"read_excel", "success", "error", "stop">>
        /\ df = Upload
        /\ filtered = <<>> /\ shown = <<>> /\ top10 = <<>>
        /\ ~export.written
        /\ chart1 = <<>> /\ chart2 = <<>>

(* The run stopped on a table with rows that lacks a required column *)
C4_Witness ==
    /\ LacksColumn
    /\ pc = "stopped"
    /\ Upload.rows /= <<>>
    /\ errors /= <<>>

(* C5: the schema error names every missing required column.                 *)
C5_EveryMissingNamed ==
    (LacksColumn /\ pc = "stopped") =>
        \A c \in RequiredSet \ Upload.cols : \E i \in 1..Len(errors) : errors[i] = c

(* C5 (amended): the schema error names exactly one column, the first        *)
(* missing one in the order name, eps, roe, pe, pb; a single missing column  *)
(* is therefore always named.                                                *)
C5_FirstMissingNamed ==
    (LacksColumn /\ pc = "stopped") =>
        /\ Len(errors) = 1
        /\ \E k \in 1..Len(required_cols) :
              /\ errors[1] = required_cols[k]
              /\ required_cols[k] \notin Upload.cols
              /\ \A m \in 1..(k - 1) : required_cols[m] \in Upload.cols

(* Two required columns are missing and the run has stopped *)
C5_Witness ==
    /\ LacksColumn
    /\ pc = "stopped"
    /\ Cardinality(RequiredSet \ Upload.cols) >= 2
    /\ errors /= <<>>

(* C6: a file that cannot be parsed ends the run in an error shown to the   *)
(* user that names the cause (a message of the script, or the exception as  *)
(* the page displays it), and nothing downstream is produced: no success    *)
(* message, table, export or chart.                                         *)
C6_ParseErrorSurfaced ==
    (uploaded_file.present /\ ~uploaded_file.parseable /\ pc \notin {"upload", "read"}) =>
        /\ pc \in {"raised", "stopped"}
        /\ Occurs("error") \/ notice = "exception_details"
        /\ ~Occurs("success")
        /\ filtered = <<>> /\ shown = <<>> /\ top10 = <<>>
        /\ ~export.written
        /\ chart1 = <<>> /\ chart2 = <<>>

(* C7: top10 has min(10, len(filtered)) rows and is the prefix of filtered   *)
(* in filtered's order; both chart series are read off top10 in that order.  *)
C7_TopNIsPrefix ==
    Visualized =>
        /\ Len(top10) = (IF Len(filtered) < TopN THEN Len(filtered) ELSE TopN)
        /\ \A i \in 1..Len(top10) : top10[i] = filtered[i]
        /\ Occurs("chart1") =>
              /\ Len(chart1) = Len(top10)
              /\ \A i \in 1..Len(top10) :
                    chart1[i] = <<top10[i].cells[name_col], top10[i].cells[roe_col]>>
        /\ Occurs("chart2") =>
              /\ Len(chart2) = Len(top10)
              /\ \A i \in 1..Len(top10) :
                    chart2[i] = <<top10[i].cells[name_col], top10[i].cells[pe_col],
                                  top10[i].cells[pb_col]>>

(* More than ten rows passed and both charts were drawn *)
C7_Witness ==
    /\ pc = "done"
    /\ Len(filtered) > TopN
    /\ Len(top10) = TopN
    /\ Len(chart1) = TopN /\ Len(chart2) = TopN

(* C8: when nothing passes, the run ends normally: the table is shown        *)
(* empty, top10 is empty, the notice is shown instead of the charts, and no  *)
(* error or exception occurs; when top10 is not empty both charts are drawn. *)
C8_EmptyResultIsNormal ==
    /\ (Screened /\ filtered = <<>>) => (raised = "none" /\ ~Occurs("error"))
    /\ (pc = "done" /\ filtered = <<>>) =>
          /\ top10 = <<>>
          /\ shown = <<>> /\ Occurs("dataframe")
          /\ Occurs("info")
          /\ ~Occurs("chart1") /\ ~Occurs("chart2")
          /\ chart1 = <<>> /\ chart2 = <<>>
    /\ (pc = "done" /\ top10 /= <<>>) =>
          /\ Occurs("chart1") /\ Occurs("chart2")
          /\ ~Occurs("info")
    /\ (pc = "done" /\ filtered /= <<>>) => top10 /= <<>>

(* Rows were uploaded, cleaning left none, and the run ended without charts *)
C8_Witness ==
    /\ pc = "done"
    /\ Upload.rows /= <<>>
    /\ df.rows = <<>>
    /\ filtered = <<>>
    /\ Occurs("info")

(* C9: cleaning the cleaned table changes nothing: same rows, same order.    *)
C9_CleanIdempotent ==
    Cleaned => Clean(df) = df

(* Cleaning dropped a row and kept a row *)
C9_Witness ==
    /\ Cleaned
    /\ df.rows /= <<>>
    /\ Len(df.rows) < Len(Upload.rows)
    /\ df.cols /= Upload.cols

(* C10: the export is written before any chart, and holds the cells of every *)
(* row of the filtered result in order (all rows, no index column), also     *)
(* when the result is empty; a run that has not reached the export step, or  *)
(* that stopped for a missing upload or column, has written nothing.         *)
C10_ExportFullResultBeforeCharts ==
    /\ Exported =>
          /\ export.written
          /\ Len(export.rows) = Len(filtered)
          /\ \A i \in 1..Len(filtered) :
                /\ DOMAIN export.rows[i] = RequiredSet
                /\ export.rows[i] = filtered[i].cells
    /\ ~Exported => (~export.written /\ export.rows = <<>>)
    /\ pc \in {"stopped", "raised"} => ~Occurs("to_excel")
    /\ Occurs("chart1") => Before("to_excel", "chart1")
    /\ Occurs("chart2") => Before("to_excel", "chart2")
    /\ ~Before("chart1", "to_excel") /\ ~Before("chart2", "to_excel")

(* A result longer than the chart was exported whole *)
C10_Witness ==
    /\ pc = "done"
    /\ export.written
    /\ Len(export.rows) > TopN
    /\ Occurs("chart2")

====
